---- MODULE Spec2Model ----
(***************************************************************************)
(* Model of ch2/src/main.rs: polynomial evaluation (Polynomial), Lagrange  *)
(* interpolation in barycentric form (LagrangePolynomial) and Newton       *)
(* interpolation by divided differences (NewtonPolynomial).                *)
(*                                                                         *)
(* Numbers.  The program computes in f32.  The model keeps every finite    *)
(* result exact (a rational n/d * 2^e in lowest terms, n and d odd), so    *)
(* significand rounding is not modelled, and keeps what IEEE-754 binary32  *)
(* does outside the finite numbers: a result whose magnitude is 2^128 or   *)
(* more is an infinity, a nonzero result of magnitude 2^-150 or less is    *)
(* zero, x/0 is an infinity or NaN, and NaN and the infinities propagate   *)
(* as IEEE-754 says.  Zero is unsigned: every zero divisor the program     *)
(* forms from finite inputs is x - x = +0.                                 *)
(***************************************************************************)
EXTENDS Integers, Sequences, FiniteSets, TLC

\* ------------------------------------------------------------------ f32

\* binary32: results of magnitude >= 2^F32_OVERFLOW_EXP are infinite.
F32_OVERFLOW_EXP == 128

\* binary32: the least subnormal is 2^-149; a nonzero result of magnitude
\* <= 2^F32_UNDERFLOW_EXP (half of it, ties to even) rounds to zero.
F32_UNDERFLOW_EXP == -150

Abs(i) == IF i < 0 THEN -i ELSE i

Sgn(i) == IF i < 0 THEN -1 ELSE IF i = 0 THEN 0 ELSE 1

RECURSIVE GCD(_, _)
GCD(a, b) == IF b = 0 THEN a ELSE GCD(b, a % b)

\* The number of factors 2 of m > 0.
RECURSIVE Twos(_)
Twos(m) == IF m % 2 = 1 THEN 0 ELSE 1 + Twos(m \div 2)

NaN == [k |-> "nan", n |-> 0, d |-> 1, e |-> 0]

Inf(s) == [k |-> "inf", n |-> s, d |-> 1, e |-> 0]

Zero == [k |-> "fin", n |-> 0, d |-> 1, e |-> 0]

\* The finite number n/d * 2^e (d > 0) in its one normal form.
Fin(n, d, e) ==
    IF n = 0 THEN Zero
    ELSE LET g  == GCD(Abs(n), d)
             n1 == n \div g
             d1 == d \div g
             tn == Twos(Abs(n1))
             td == Twos(d1)
         IN  [k |-> "fin", n |-> n1 \div (2 ^ tn), d |-> d1 \div (2 ^ td),
              e |-> e + tn - td]

F(i) == Fin(i, 1, 0)

IsFinite(a) == a.k = "fin"

IsZero(a) == a.k = "fin" /\ a.n = 0

\* floor(log2(n/d)) for n, d > 0.
RECURSIVE FloorLog2(_, _)
FloorLog2(n, d) ==
    IF n >= d THEN (IF n >= 2 * d THEN 1 + FloorLog2(n, 2 * d) ELSE 0)
    ELSE FloorLog2(2 * n, d) - 1

\* The range of binary32 applied to an exact finite result.
F32Range(a) ==
    IF a.n = 0 THEN a
    ELSE LET m == FloorLog2(Abs(a.n), a.d) + a.e
         IN  IF m >= F32_OVERFLOW_EXP THEN Inf(Sgn(a.n))
             ELSE IF m < F32_UNDERFLOW_EXP
                     \/ (m = F32_UNDERFLOW_EXP /\ Abs(a.n) = 1 /\ a.d = 1)
                  THEN Zero
                  ELSE a

\* Exact sum, product and quotient of finite numbers.
XAdd(a, b) ==
    IF a.n = 0 THEN b
    ELSE IF b.n = 0 THEN a
    ELSE LET e == IF a.e < b.e THEN a.e ELSE b.e
         IN  Fin(a.n * b.d * (2 ^ (a.e - e)) + b.n * a.d * (2 ^ (b.e - e)),
                 a.d * b.d, e)

XMul(a, b) == Fin(a.n * b.n, a.d * b.d, a.e + b.e)

XDiv(a, b) == Fin(Sgn(b.n) * a.n * b.d, a.d * Abs(b.n), a.e - b.e)

f32_neg(a) == [a EXCEPT !.n = -a.n]

f32_add(a, b) ==
    IF a.k = "nan" \/ b.k = "nan" THEN NaN
    ELSE IF a.k = "inf" /\ b.k = "inf" THEN (IF a.n = b.n THEN a ELSE NaN)
    ELSE IF a.k = "inf" THEN a
    ELSE IF b.k = "inf" THEN b
    ELSE F32Range(XAdd(a, b))

f32_sub(a, b) == f32_add(a, f32_neg(b))

f32_mul(a, b) ==
    IF a.k = "nan" \/ b.k = "nan" THEN NaN
    ELSE IF a.k = "inf" \/ b.k = "inf"
         THEN (IF a.n = 0 \/ b.n = 0 THEN NaN ELSE Inf(Sgn(a.n) * Sgn(b.n)))
    ELSE F32Range(XMul(a, b))

f32_div(a, b) ==
    IF a.k = "nan" \/ b.k = "nan" THEN NaN
    ELSE IF a.k = "inf"
         THEN (IF b.k = "inf" THEN NaN
               ELSE Inf(a.n * (IF b.n < 0 THEN -1 ELSE 1)))
    ELSE IF b.k = "inf" THEN Zero
    ELSE IF b.n = 0 THEN (IF a.n = 0 THEN NaN ELSE Inf(Sgn(a.n)))
    ELSE F32Range(XDiv(a, b))

\* The comparison == of f32: NaN equals nothing.
f32_eq(a, b) == a.k # "nan" /\ b.k # "nan" /\ a = b

\* -------------------------------------------------------------- program

Point(x, y) == [x |-> x, y |-> y]

\* What a call leaves when it panics (an index or slice out of range).
Panic == [k |-> "panic", n |-> 0, d |-> 1, e |-> 0]

RECURSIVE powi(_, _)
powi(x, i) == IF i = 0 THEN F(1) ELSE f32_mul(powi(x, i - 1), x)

Polynomial(coeffs) == [kind |-> "Polynomial", coeffs |-> coeffs]

\* The fold of Polynomial::get_y over the first i coefficients.
RECURSIVE Polynomial_fold(_, _, _)
Polynomial_fold(coeffs, x, i) ==
    IF i = 0 THEN Zero
    ELSE f32_add(Polynomial_fold(coeffs, x, i - 1),
                 f32_mul(powi(x, i - 1), coeffs[i]))

Polynomial_get_y(self, x) == Polynomial_fold(self.coeffs, x, Len(self.coeffs))

\* bweight without its filter: every difference is a factor.
RECURSIVE bweight_nofilter(_, _, _)
bweight_nofilter(points, point, j) ==
    IF j = 0 THEN F(1)
    ELSE f32_mul(bweight_nofilter(points, point, j - 1),
                 f32_sub(point.x, points[j].x))

\* The product of the nonzero point.x - p.x over the first j points p.
RECURSIVE bweight(_, _, _)
bweight(points, point, j) ==
    IF j = 0 THEN F(1)
    ELSE LET f == f32_sub(point.x, points[j].x)
         IN  IF ~f32_eq(f, Zero)
             THEN f32_mul(bweight(points, point, j - 1), f)
             ELSE bweight(points, point, j - 1)

get_bweights(points) ==
    [i \in 1..Len(points) |->
        [w |-> bweight(points, points[i], Len(points)), p |-> points[i]]]

LagrangeInterpolate(points) ==
    [kind |-> "Lagrange", bterms |-> get_bweights(points)]

\* find(|p| p.x == *x): the index of the first item of s whose x equals x,
\* 0 when there is none.
FirstHit(s, x) ==
    IF \E i \in DOMAIN s : f32_eq(s[i].x, x)
    THEN CHOOSE i \in DOMAIN s :
            f32_eq(s[i].x, x) /\ \A j \in 1..(i - 1) : ~f32_eq(s[j].x, x)
    ELSE 0

\* Lagrange_fold with temp = x - p.x, the weight left out.
RECURSIVE Lagrange_fold_noweight(_, _, _)
Lagrange_fold_noweight(bterms, x, i) ==
    IF i = 0 THEN <<Zero, Zero>>
    ELSE LET acc  == Lagrange_fold_noweight(bterms, x, i - 1)
             temp == f32_sub(x, bterms[i].p.x)
         IN  <<f32_add(acc[1], f32_div(bterms[i].p.y, temp)),
               f32_add(acc[2], f32_div(F(1), temp))>>

\* The fold of LagrangePolynomial::get_y over the first i terms: <<acc.0, acc.1>>.
RECURSIVE Lagrange_fold(_, _, _)
Lagrange_fold(bterms, x, i) ==
    IF i = 0 THEN <<Zero, Zero>>
    ELSE LET acc  == Lagrange_fold(bterms, x, i - 1)
             temp == f32_mul(f32_sub(x, bterms[i].p.x), bterms[i].w)
         IN  <<f32_add(acc[1], f32_div(bterms[i].p.y, temp)),
               f32_add(acc[2], f32_div(F(1), temp))>>

\* Lagrange_get_y without the check for an interpolation point.
Lagrange_get_y_nohit(self, x) ==
    LET terms == Lagrange_fold(self.bterms, x, Len(self.bterms))
    IN  f32_div(terms[1], terms[2])

Lagrange_get_y(self, x) ==
    LET ps  == [i \in DOMAIN self.bterms |-> self.bterms[i].p]
        hit == FirstHit(ps, x)
    IN  IF hit # 0 THEN self.bterms[hit].p.y
        ELSE LET terms == Lagrange_fold(self.bterms, x, Len(self.bterms))
             IN  f32_div(terms[1], terms[2])

\* ddiff with the two recursive calls in the other order.
RECURSIVE ddiff_swapped(_, _, _)
ddiff_swapped(i, j, points) ==
    IF Abs(i - j) = 0 THEN points[i + 1].y
    ELSE IF Abs(i - j) = 1
    THEN f32_div(f32_sub(points[j + 1].y, points[i + 1].y),
                 f32_sub(points[j + 1].x, points[i + 1].x))
    ELSE f32_div(f32_sub(ddiff_swapped(i, j - 1, points),
                         ddiff_swapped(i + 1, j, points)),
                 f32_sub(points[j + 1].x, points[i + 1].x))

\* ddiff that returns 0 instead of dividing by zero.
RECURSIVE ddiff_guarded(_, _, _)
ddiff_guarded(i, j, points) ==
    IF Abs(i - j) = 0 THEN points[i + 1].y
    ELSE IF f32_eq(points[j + 1].x, points[i + 1].x) THEN Zero
    ELSE IF Abs(i - j) = 1
    THEN f32_div(f32_sub(points[j + 1].y, points[i + 1].y),
                 f32_sub(points[j + 1].x, points[i + 1].x))
    ELSE f32_div(f32_sub(ddiff_guarded(i + 1, j, points),
                         ddiff_guarded(i, j - 1, points)),
                 f32_sub(points[j + 1].x, points[i + 1].x))

\* NewtonPolynomial::ddiff; i and j count from 0 as in the source.
RECURSIVE ddiff(_, _, _)
ddiff(i, j, points) ==
    IF Abs(i - j) = 0 THEN points[i + 1].y
    ELSE IF Abs(i - j) = 1
    THEN f32_div(f32_sub(points[j + 1].y, points[i + 1].y),
                 f32_sub(points[j + 1].x, points[i + 1].x))
    ELSE f32_div(f32_sub(ddiff(i + 1, j, points), ddiff(i, j - 1, points)),
                 f32_sub(points[j + 1].x, points[i + 1].x))

get_ddiffs(points) == [j \in 1..Len(points) |-> ddiff(0, j - 1, points)]

\* The divisors of the divisions that ddiff(i, j, points) performs, itself
\* and in the calls it makes.
RECURSIVE ddiff_divisors(_, _, _)
ddiff_divisors(i, j, points) ==
    IF Abs(i - j) = 0 THEN {}
    ELSE IF Abs(i - j) = 1
    THEN {f32_sub(points[j + 1].x, points[i + 1].x)}
    ELSE ddiff_divisors(i + 1, j, points) \cup ddiff_divisors(i, j - 1, points)
            \cup {f32_sub(points[j + 1].x, points[i + 1].x)}

NewtonInterpolate(points) ==
    [kind |-> "Newton", points |-> points, ddiffs |-> get_ddiffs(points)]

\* Newton_scan that yields the product before multiplying: its k-th item
\* is the product of the first k - 1 factors.
RECURSIVE Newton_scan_lag(_, _, _)
Newton_scan_lag(points, x, k) ==
    IF k <= 1 THEN F(1)
    ELSE f32_mul(Newton_scan_lag(points, x, k - 1),
                 f32_sub(x, points[k - 1].x))

\* Newton_scan over points[1..]: the first node is skipped.
RECURSIVE Newton_scan_shifted(_, _, _)
Newton_scan_shifted(points, x, k) ==
    IF k = 0 THEN F(1)
    ELSE f32_mul(Newton_scan_shifted(points, x, k - 1),
                 f32_sub(x, points[k + 1].x))

\* The scan of NewtonPolynomial::get_y: its k-th item, the product of the
\* first k factors x - p.x.
RECURSIVE Newton_scan(_, _, _)
Newton_scan(points, x, k) ==
    IF k = 0 THEN F(1)
    ELSE f32_mul(Newton_scan(points, x, k - 1), f32_sub(x, points[k].x))

\* Newton_sum over ddiffs instead of ddiffs[1..].
RECURSIVE Newton_sum_noslice(_, _, _)
Newton_sum_noslice(self, x, k) ==
    IF k = 0 THEN Zero
    ELSE f32_add(Newton_sum_noslice(self, x, k - 1),
                 f32_mul(self.ddiffs[k], Newton_scan(self.points, x, k)))

\* The sum of the first k items of ddiffs[1..] zipped with the scan.
RECURSIVE Newton_sum(_, _, _)
Newton_sum(self, x, k) ==
    IF k = 0 THEN Zero
    ELSE f32_add(Newton_sum(self, x, k - 1),
                 f32_mul(self.ddiffs[k + 1], Newton_scan(self.points, x, k)))

Min(a, b) == IF a < b THEN a ELSE b

Newton_get_y(self, x) ==
    LET hit == FirstHit(self.points, x)
    IN  IF hit # 0 THEN self.points[hit].y
        ELSE IF Len(self.ddiffs) < 1 THEN Panic
        ELSE f32_add(Newton_sum(self, x,
                                Min(Len(self.ddiffs) - 1, Len(self.points))),
                     self.ddiffs[1])

get_y(self, x) ==
    CASE self.kind = "Polynomial" -> Polynomial_get_y(self, x)
      [] self.kind = "Lagrange"   -> Lagrange_get_y(self, x)
      [] self.kind = "Newton"     -> Newton_get_y(self, x)

\* The points get_points has collected from the first i items of xs.
RECURSIVE get_points_collect(_, _, _)
get_points_collect(self, xs, i) ==
    IF i = 0 THEN <<>>
    ELSE Append(get_points_collect(self, xs, i - 1),
                Point(xs[i], get_y(self, xs[i])))

\* get_points that collects in reverse.
RECURSIVE get_points_reversed_collect(_, _, _)
get_points_reversed_collect(self, xs, i) ==
    IF i = 0 THEN <<>>
    ELSE <<Point(xs[i], get_y(self, xs[i]))>>
            \o get_points_reversed_collect(self, xs, i - 1)

get_points_reversed(self, xs) == get_points_reversed_collect(self, xs, Len(xs))

\* PolyGetPoints::get_points.  A Panic among the ys stands for the call of
\* get_y that panicked: get_points then returns nothing.
get_points(self, xs) == get_points_collect(self, xs, Len(xs))

\* Whether the call that collected out panicked.
panics(out) == \E i \in DOMAIN out : out[i].y = Panic

\* ---------------------------------------------------------------- inputs

\* The longest point (and coefficient) sequence, and the longest batch of
\* query values.
MaxPoints == 3

MaxXs == 2

SeqsUpTo(S, n) == UNION {[1..m -> S] : m \in 0..n}

\* Node x-values, sample y-values, coefficients and query values.
NodeXs == {F(0), F(1), F(2), F(3)}

NodeYs == {F(-1), F(2)}

Coeffs == {F(-1), F(2)}

QueryXs == NodeXs \cup {F(-1), F(4)}

BatchXs == {F(1), F(4)}

\* Node x-values near the bottom of binary32's range, i * 2^-80, and query
\* values of that size.
TinyXs == {Fin(i, 1, -80) : i \in 0..3}

TinyQueryXs == TinyXs \cup {Fin(-1, 1, -80), Fin(1, 1, -81)}

PointSeqs(xs, ys) ==
    SeqsUpTo({Point(x, y) : x \in xs, y \in ys}, MaxPoints)

\* ----------------------------------------------------------------- state

VARIABLES
    pc,      \* where main is: "new", "points", "built", "done" or "panic"
    p,       \* the Polynomial
    points,  \* the points the interpolants are built from
    lp,      \* the LagrangePolynomial
    np,      \* the NewtonPolynomial
    xs,      \* the query values
    pout,    \* p.get_points(xs)
    lout,    \* lp.get_points(xs)
    nout     \* np.get_points(xs)

vars == <<pc, p, points, lp, np, xs, pout, lout, nout>>

Unbuilt ==
    /\ lp = LagrangeInterpolate(<<>>)
    /\ np = NewtonInterpolate(<<>>)
    /\ xs = <<>>
    /\ pout = <<>>
    /\ lout = <<>>
    /\ nout = <<>>

\* main's points are any sequence of points (the caller's).
Init ==
    /\ pc = "points"
    /\ p = Polynomial(<<>>)
    /\ points \in PointSeqs(NodeXs, NodeYs)
    /\ Unbuilt

\* main's points are sampled from a Polynomial: Polynomial::new.
InitPoly ==
    /\ pc = "new"
    /\ p \in {Polynomial(c) : c \in SeqsUpTo(Coeffs, MaxPoints)}
    /\ points = <<>>
    /\ Unbuilt

\* As Init, with nodes near the bottom of binary32's range.
InitTiny ==
    /\ pc = "points"
    /\ p = Polynomial(<<>>)
    /\ points \in PointSeqs(TinyXs, NodeYs)
    /\ Unbuilt

\* The sequences of n pairwise distinct items of S.
DistinctSeqs(S, n) ==
    {s \in [1..n -> S] : \A i, j \in 1..n : i # j => s[i] # s[j]}

\* let points = p.get_points(nodes): one node per coefficient, the nodes
\* pairwise distinct as main's are.
Sample ==
    /\ pc = "new"
    /\ \E nodes \in DistinctSeqs(NodeXs, Len(p.coeffs)) :
          points' = get_points(p, nodes)
    /\ pc' = "points"
    /\ UNCHANGED <<p, lp, np, xs, pout, lout, nout>>

\* let lp = LagrangePolynomial::interpolate(&points);
\* let np = NewtonPolynomial::interpolate(&points);
Interpolate ==
    /\ pc = "points"
    /\ lp' = LagrangeInterpolate(points)
    /\ np' = NewtonInterpolate(points)
    /\ pc' = "built"
    /\ UNCHANGED <<p, points, xs, pout, lout, nout>>

\* p.get_points(&q), lp.get_points(&q), np.get_points(&q)
Query(q) ==
    LET po == get_points(p, q)
        lo == get_points(lp, q)
        no == get_points(np, q)
    IN  /\ pc = "built"
        /\ xs' = q
        /\ IF panics(po) \/ panics(lo) \/ panics(no)
           THEN /\ pc' = "panic"
                /\ UNCHANGED <<pout, lout, nout>>
           ELSE /\ pc' = "done"
                /\ pout' = po
                /\ lout' = lo
                /\ nout' = no
        /\ UNCHANGED <<p, points, lp, np>>

QueryOne == \E x \in QueryXs : Query(<<x>>)

QueryMany == \E q \in SeqsUpTo(BatchXs, MaxXs) : Query(q)

QueryTiny == \E x \in TinyQueryXs : Query(<<x>>)

Next == Interpolate \/ QueryOne

NextTiny == Interpolate \/ QueryTiny

NextPoly == Sample \/ Interpolate \/ QueryMany

\* Spec: interpolation of any points.  SpecPoly: main's pipeline, the points
\* sampled from a Polynomial.  SpecTiny: as Spec, near the bottom of
\* binary32's range, where products underflow.
Spec == Init /\ [][Next]_vars

SpecPoly == InitPoly /\ [][NextPoly]_vars

SpecTiny == InitTiny /\ [][NextTiny]_vars

\* ---------------------------------------------------------------- claims

\* The x-coordinates of pts are pairwise distinct.
DistinctXs(pts) ==
    \A i, j \in DOMAIN pts : i # j => ~f32_eq(pts[i].x, pts[j].x)

IsNode(x) == \E i \in DOMAIN points : f32_eq(points[i].x, x)

\* The sequences that hold the items of s in another order.
PermSeqs(s) == {[i \in DOMAIN s |-> s[f[i]]] : f \in Permutations(DOMAIN s)}

Queried == pc = "done"

Built == pc \in {"built", "done", "panic"}

\* C1 as stated: for any point sequence and every point pt of it, get_y(pt.x)
\* of the Lagrange and of the Newton interpolant is exactly pt.y.
C1_ExactAtNodes_AnyPoints ==
    Queried =>
        \A i \in DOMAIN xs : \A j \in DOMAIN points :
            f32_eq(points[j].x, xs[i]) =>
                lout[i].y = points[j].y /\ nout[i].y = points[j].y

\* C1, amended: get_y(pt.x) of both interpolants is exactly the y of the first
\* point whose x-coordinate is pt.x, so it is pt.y for every point pt when the
\* x-coordinates are pairwise distinct.
C1_ExactAtNodes ==
    Queried =>
        \A i \in DOMAIN xs : \A j \in DOMAIN points :
            f32_eq(points[j].x, xs[i]) =>
                LET first == CHOOSE m \in DOMAIN points :
                        /\ f32_eq(points[m].x, xs[i])
                        /\ \A l \in 1..(m - 1) : ~f32_eq(points[l].x, xs[i])
                IN  /\ lout[i].y = points[first].y
                    /\ nout[i].y = points[first].y
                    /\ DistinctXs(points) => first = j

C1_Witness ==
    /\ Queried
    /\ Len(points) = 3
    /\ DistinctXs(points)
    /\ f32_eq(points[3].x, xs[1])
    /\ lout[1].y = points[3].y
    /\ nout[1].y = points[3].y

\* C2: a Polynomial of degree d sampled at d + 1 pairwise distinct nodes; at
\* every query value that is not a node, both interpolants return what the
\* Polynomial returns.
C2_AgreesWithPolynomial ==
    (Queried /\ Len(p.coeffs) >= 1 /\ Len(points) = Len(p.coeffs)
        /\ DistinctXs(points)) =>
        \A i \in DOMAIN xs :
            ~IsNode(xs[i]) =>
                /\ f32_eq(lout[i].y, pout[i].y)
                /\ f32_eq(nout[i].y, pout[i].y)

C2_Witness ==
    /\ Queried
    /\ Len(p.coeffs) = 3
    /\ DistinctXs(points)
    /\ Len(xs) >= 1
    /\ ~IsNode(xs[1])
    /\ ~IsZero(pout[1].y)
    /\ f32_eq(lout[1].y, pout[1].y)
    /\ f32_eq(nout[1].y, pout[1].y)

\* C3 as stated: for any point sequence and every query value, the Lagrange
\* and the Newton interpolant return the same number.
C3_CrossAgreement_AnyPoints ==
    Queried => \A i \in DOMAIN xs : f32_eq(lout[i].y, nout[i].y)

\* C3, amended: for a non-empty point sequence with pairwise distinct
\* x-coordinates and every query value, the Lagrange and the Newton
\* interpolant return the same number.
C3_CrossAgreement ==
    (Built /\ Len(points) >= 1 /\ DistinctXs(points)) =>
        /\ pc # "panic"
        /\ Queried => \A i \in DOMAIN xs : f32_eq(lout[i].y, nout[i].y)

C3_Witness ==
    /\ Queried
    /\ Len(points) = 3
    /\ DistinctXs(points)
    /\ ~IsNode(xs[1])
    /\ ~IsZero(lout[1].y)
    /\ f32_eq(lout[1].y, nout[1].y)

\* get_y(x) of both interpolants built from pts is what was returned for
\* the points in their original order.
SameAnswers(pts, i) ==
    /\ get_y(LagrangeInterpolate(pts), xs[i]) = lout[i].y
    /\ get_y(NewtonInterpolate(pts), xs[i]) = nout[i].y

\* C4 as stated: for any point sequence, any permutation of it and any
\* query value, the interpolants built from the permutation return what
\* those built from the sequence return.
C4_OrderInvariance_AnyPoints ==
    Queried =>
        \A i \in DOMAIN xs : \A pts \in PermSeqs(points) : SameAnswers(pts, i)

\* C4, amended: for a point sequence with pairwise distinct x-coordinates,
\* any permutation of it and any query value, the interpolants built from
\* the permutation return what those built from the sequence return.
C4_OrderInvariance ==
    (Queried /\ DistinctXs(points)) =>
        \A i \in DOMAIN xs : \A pts \in PermSeqs(points) : SameAnswers(pts, i)

C4_Witness ==
    /\ Queried
    /\ Len(points) = 3
    /\ DistinctXs(points)
    /\ ~IsNode(xs[1])
    /\ ~IsZero(nout[1].y)
    /\ \A pts \in PermSeqs(points) : SameAnswers(pts, 1)

\* out is xs paired, item by item and in order, with get_y of self.
IsBatchOf(out, self) ==
    /\ Len(out) = Len(xs)
    /\ \A i \in DOMAIN xs : out[i] = Point(xs[i], get_y(self, xs[i]))

\* C5: for each of the three evaluators and every sequence xs, get_points(xs)
\* is as long as xs and its i-th item is the point (xs[i], get_y(xs[i])); it
\* fails to return only when one of those calls of get_y does.
C5_BatchEvaluation ==
    /\ Queried =>
          IsBatchOf(pout, p) /\ IsBatchOf(lout, lp) /\ IsBatchOf(nout, np)
    /\ pc = "panic" =>
          \E i \in DOMAIN xs :
              Panic \in {get_y(p, xs[i]), get_y(lp, xs[i]), get_y(np, xs[i])}

C5_Witness ==
    /\ Queried
    /\ Len(xs) = 2
    /\ xs[1] = xs[2]
    /\ Len(points) = 2
    /\ IsNode(xs[1])
    /\ IsBatchOf(nout, np)
    /\ nout[1] = nout[2]

\* C6: on ill-posed input (duplicate x-coordinates, no points) interpolate
\* and get_y of both interpolants return a value; they never panic.
C6_NoCrash == pc # "panic"

\* The divided difference f[x_i, ..., x_j] of the points, by its recurrence
\* (i and j count from 0).
DividedDifference[i \in 0..MaxPoints + 1, j \in 0..MaxPoints + 1] ==
    IF j = i THEN points[i + 1].y
    ELSE IF j = i + 1
    THEN f32_div(f32_sub(points[i + 2].y, points[i + 1].y),
                 f32_sub(points[i + 2].x, points[i + 1].x))
    ELSE f32_div(f32_sub(DividedDifference[i + 1, j],
                         DividedDifference[i, j - 1]),
                 f32_sub(points[j + 1].x, points[i + 1].x))

\* C7: after NewtonPolynomial::interpolate of n points, ddiffs has exactly n
\* entries and its k-th (from 0) is the divided difference f[x_0, ..., x_k].
C7_DividedDifferenceTable ==
    Built =>
        /\ np.points = points
        /\ Len(np.ddiffs) = Len(points)
        /\ \A k \in 0..(Len(points) - 1) :
              np.ddiffs[k + 1] = DividedDifference[0, k]

C7_Witness ==
    /\ pc = "built"
    /\ Len(points) = 3
    /\ DistinctXs(points)
    /\ ~IsZero(np.ddiffs[3])
    /\ np.ddiffs[3] = DividedDifference[0, 2]

\* The product of the items of s, from the left.
RECURSIVE Product(_)
Product(s) ==
    IF s = <<>> THEN F(1)
    ELSE f32_mul(Product(SubSeq(s, 1, Len(s) - 1)), s[Len(s)])

RECURSIVE XProduct(_)
XProduct(s) ==
    IF s = <<>> THEN F(1)
    ELSE XMul(XProduct(SubSeq(s, 1, Len(s) - 1)), s[Len(s)])

\* The differences x_i - x_j, over all points j in order, that are not zero.
IsNonzero(a) == ~f32_eq(a, Zero)

NonzeroDifferences(i) ==
    SelectSeq([j \in 1..Len(points) |-> f32_sub(points[i].x, points[j].x)],
              IsNonzero)

\* One term per point, in order, weighted by the product of the nonzero
\* differences.
WeightsAreProducts ==
    /\ Len(lp.bterms) = Len(points)
    /\ \A i \in DOMAIN points :
          /\ lp.bterms[i].p = points[i]
          /\ lp.bterms[i].w = Product(NonzeroDifferences(i))

\* C8 as stated: one term per point, in order, weighted by the product of
\* the nonzero differences x_i - x_j; no weight is ever zero.
C8_LagrangeWeights_NeverZero ==
    Built =>
        /\ WeightsAreProducts
        /\ \A i \in DOMAIN lp.bterms : ~IsZero(lp.bterms[i].w)

\* A multiplication of the product of s underflows: its operands and its
\* exact result are not zero, its f32 result is.
Underflows(s) ==
    \E k \in 1..Len(s) :
        LET a == Product(SubSeq(s, 1, k - 1))
        IN  /\ IsFinite(a) /\ ~IsZero(a) /\ ~IsZero(s[k])
            /\ ~IsZero(XMul(a, s[k]))
            /\ IsZero(f32_mul(a, s[k]))

\* C8, amended: one term per point, in order, weighted by the f32 product of
\* the nonzero differences x_i - x_j; that product is never zero in exact
\* arithmetic, and a weight is zero only when a multiplication of the
\* product underflows f32.
C8_LagrangeWeights ==
    Built =>
        /\ WeightsAreProducts
        /\ \A i \in DOMAIN lp.bterms :
              /\ ~IsZero(XProduct(NonzeroDifferences(i)))
              /\ IsZero(lp.bterms[i].w) => Underflows(NonzeroDifferences(i))

C8_Witness ==
    /\ pc = "built"
    /\ Len(points) = 3
    /\ f32_eq(points[1].x, points[3].x)
    /\ ~f32_eq(points[1].x, points[2].x)
    /\ lp.bterms[1].w = f32_sub(points[1].x, points[2].x)
    /\ lp.bterms[3].w = lp.bterms[1].w
    /\ ~IsZero(lp.bterms[1].w)

\* The product of x - x_m over the first k points, m = 0 .. k - 1.
NewtonBasis(x, k) ==
    Product([m \in 1..k |-> f32_sub(x, points[m].x)])

\* ddiffs[0] + ddiffs[1] * basis 1 + ... + ddiffs[k] * basis k.
RECURSIVE NewtonForm(_, _)
NewtonForm(x, k) ==
    IF k = 0 THEN np.ddiffs[1]
    ELSE f32_add(NewtonForm(x, k - 1),
                 f32_mul(np.ddiffs[k + 1], NewtonBasis(x, k)))

\* C9: for n >= 1 points and a query value x that is no point's x, get_y(x)
\* of the NewtonPolynomial is ddiffs[0] plus the sum over k = 1 .. n - 1 of
\* ddiffs[k] times the product of x - x_m over m = 0 .. k - 1.
C9_NewtonFormula ==
    (Built /\ Len(points) >= 1) =>
        /\ pc # "panic"
        /\ Queried =>
              \A i \in DOMAIN xs :
                  ~IsNode(xs[i]) =>
                      nout[i].y = NewtonForm(xs[i], Len(points) - 1)

C9_Witness ==
    /\ Queried
    /\ Len(points) = 3
    /\ DistinctXs(points)
    /\ ~IsNode(xs[1])
    /\ ~IsZero(np.ddiffs[3])
    /\ ~IsZero(np.ddiffs[2])
    /\ nout[1].y = NewtonForm(xs[1], 2)

\* Two points, at any positions, with one x-coordinate and different
\* y-coordinates.
HasClash ==
    \E i, j \in DOMAIN points :
        /\ i < j
        /\ f32_eq(points[i].x, points[j].x)
        /\ ~f32_eq(points[i].y, points[j].y)

\* C10: when two points share an x-coordinate and differ in y, the
\* recursion of get_ddiffs divides by zero and a stored divided difference
\* is not finite.
C10_DuplicateNodes ==
    (Built /\ HasClash) =>
        /\ \E k \in 0..(Len(points) - 1) :
              Zero \in ddiff_divisors(0, k, points)
        /\ \E k \in DOMAIN np.ddiffs : ~IsFinite(np.ddiffs[k])

C10_Witness ==
    /\ pc = "built"
    /\ Len(points) = 3
    /\ f32_eq(points[1].x, points[3].x)
    /\ ~f32_eq(points[1].y, points[3].y)
    /\ ~f32_eq(points[1].x, points[2].x)
    /\ IsFinite(np.ddiffs[2])
    /\ ~IsFinite(np.ddiffs[3])

====
